---- MODULE Spec2Model ----
(***************************************************************************)
(* Model of the Topstep trading bot: the RiskManager                       *)
(* (src/src/risk/risk_manager.py) and the main trading loop                *)
(* (src/src/main.py).  Currency amounts and prices are integers: the code  *)
(* only adds, subtracts, multiplies and compares them.                     *)
(***************************************************************************)
EXTENDS Integers, Sequences, FiniteSets, TLC

(***************************************************************************)
(* Bounds of the model.                                                    *)
(***************************************************************************)
MaxPrice == 3
MaxLimit == 2
MaxBase == 1
MaxPointValue == 1
MaxDay == 1
StartingBalance == 5
MaxWindow == 3
MaxCalls == 5

(***************************************************************************)
(* Python's None, one sentinel per field that may hold it.                 *)
(***************************************************************************)
NoPrice == 0
NoTime == -1
NoPointValue == 0
NoSignal == 2

Prices == 1..MaxPrice
Limits == 1..MaxLimit
BaseSizes == 1..MaxBase
PointValues == {NoPointValue} \cup (1..MaxPointValue)
Signals == {-1, 0, 1, NoSignal}
\* Balances are kept within a window around the starting balance.
MaxBalance == StartingBalance + MaxPrice - 1
MinBalance == StartingBalance - 2 * MaxPrice
\* P&L values passed to the RiskManager when it is driven directly.
Pls == (0 - MaxPrice)..MaxPrice

VARIABLES
    rm,                \* the RiskManager object's fields
    current_position,  \* main: net position
    entry_price,       \* main: entry price or NoPrice
    last_trade_time,   \* main: day of last_trade_time or NoTime
    base_order_size,   \* config trading.order_size
    point_value,       \* api.point_value or NoPointValue
    now,               \* now.date() of the latest cycle, a day number
    pc,                \* "cycle" at the top of the while body, "sleep" where a
                       \* pass ends (time.sleep or continue), "done" after finally
    orders,            \* order calls made to the gateway in the latest cycle
    cyc,               \* what the latest cycle did
    call,              \* the latest direct RiskManager call: its name, its
                       \* argument, the value returned, the object before
                       \* the call (pre), and the sum of the profit_loss
                       \* values passed to update_after_trade so far
    config,            \* the risk section of config.yaml as main reads it
    strategy,          \* the BasicStrategy object, the prices fed to it and
                       \* the value its latest call returned
    account,           \* the gateway's side of the run: the signed sum of the
                       \* sizes of the orders sent (buys positive), followed
                       \* while no order call has failed
    today              \* the balance held when the calendar day of the latest
                       \* cycle began and the P&L realized since

vars == <<rm, current_position, entry_price, last_trade_time, base_order_size,
          point_value, now, pc, orders, cyc, call, config, strategy, today,
          account>>

Abs(x) == IF x < 0 THEN 0 - x ELSE x

\* The signed sum of the sizes of a sequence of order calls.
RECURSIVE SignedSum(_)
SignedSum(os) ==
    IF os = << >> THEN 0
    ELSE (IF Head(os).side = "buy" THEN Head(os).size ELSE 0 - Head(os).size)
         + SignedSum(Tail(os))

NoAccount == [net |-> 0, failed |-> FALSE]

\* The sum is not followed.
Unfollowed == [net |-> 0, failed |-> TRUE]

\* The order calls os reach the gateway; once a call has failed the sum is
\* no longer followed.
Book(a, os) ==
    IF a.failed \/ \E i \in 1..Len(os) : ~os[i].ok
    THEN Unfollowed
    ELSE [net |-> a.net + SignedSum(os), failed |-> FALSE]

RECURSIVE SumSeq(_)
SumSeq(q) == IF q = << >> THEN 0 ELSE Head(q) + SumSeq(Tail(q))

(***************************************************************************)
(* RiskManager                                                             *)
(***************************************************************************)
NewRiskManager(starting_balance, daily_loss_limit, max_drawdown) ==
    [ starting_balance    |-> starting_balance,
      daily_loss_limit    |-> daily_loss_limit,
      max_drawdown        |-> max_drawdown,
      daily_start_balance |-> starting_balance,
      current_balance     |-> starting_balance,
      peak_balance        |-> starting_balance,
      trailing_threshold  |-> starting_balance - max_drawdown,
      daily_realized_pl   |-> 0,
      trading_disabled    |-> FALSE ]

reset_day_clears(r) ==
    [r EXCEPT !.daily_start_balance = r.current_balance,
              !.daily_realized_pl = 0,
              !.trading_disabled = FALSE]

reset_day_resets_peak(r) ==
    [r EXCEPT !.daily_start_balance = r.current_balance,
              !.daily_realized_pl = 0,
              !.peak_balance = r.current_balance,
              !.trailing_threshold = r.current_balance - r.max_drawdown]

reset_day_keeps_pl(r) ==
    [r EXCEPT !.daily_start_balance = r.current_balance]

reset_day(r) ==
    [r EXCEPT !.daily_start_balance = r.current_balance,
              !.daily_realized_pl = 0]

update_after_trade_daily_lt(r, profit_loss) ==
    LET r1 == [r EXCEPT !.daily_realized_pl = @ + profit_loss,
                        !.current_balance = @ + profit_loss]
        r2 == IF r1.current_balance > r1.peak_balance
              THEN [r1 EXCEPT !.peak_balance = r1.current_balance,
                              !.trailing_threshold =
                                  r1.current_balance - r1.max_drawdown]
              ELSE r1
        r3 == IF r2.current_balance < r2.trailing_threshold
              THEN [r2 EXCEPT !.trading_disabled = TRUE]
              ELSE r2
        r4 == IF r3.current_balance
                    < r3.daily_start_balance - r3.daily_loss_limit
              THEN [r3 EXCEPT !.trading_disabled = TRUE]
              ELSE r3
    IN  r4

update_after_trade_trailing_le(r, profit_loss) ==
    LET r1 == [r EXCEPT !.daily_realized_pl = @ + profit_loss,
                        !.current_balance = @ + profit_loss]
        r2 == IF r1.current_balance > r1.peak_balance
              THEN [r1 EXCEPT !.peak_balance = r1.current_balance,
                              !.trailing_threshold =
                                  r1.current_balance - r1.max_drawdown]
              ELSE r1
        r3 == IF r2.current_balance <= r2.trailing_threshold
              THEN [r2 EXCEPT !.trading_disabled = TRUE]
              ELSE r2
        r4 == IF r3.current_balance
                    <= r3.daily_start_balance - r3.daily_loss_limit
              THEN [r3 EXCEPT !.trading_disabled = TRUE]
              ELSE r3
    IN  r4

update_after_trade_stale_threshold(r, profit_loss) ==
    LET r1 == [r EXCEPT !.daily_realized_pl = @ + profit_loss,
                        !.current_balance = @ + profit_loss]
        r2 == IF r1.current_balance > r1.peak_balance
              THEN [r1 EXCEPT !.peak_balance = r1.current_balance,
                              !.trailing_threshold =
                                  r1.trailing_threshold]
              ELSE r1
        r3 == IF r2.current_balance < r2.trailing_threshold
              THEN [r2 EXCEPT !.trading_disabled = TRUE]
              ELSE r2
        r4 == IF r3.current_balance
                    <= r3.daily_start_balance - r3.daily_loss_limit
              THEN [r3 EXCEPT !.trading_disabled = TRUE]
              ELSE r3
    IN  r4

update_after_trade_peak_follows(r, profit_loss) ==
    LET r1 == [r EXCEPT !.daily_realized_pl = @ + profit_loss,
                        !.current_balance = @ + profit_loss]
        r2 == IF r1.current_balance # r1.peak_balance
              THEN [r1 EXCEPT !.peak_balance = r1.current_balance,
                              !.trailing_threshold =
                                  r1.current_balance - r1.max_drawdown]
              ELSE r1
        r3 == IF r2.current_balance < r2.trailing_threshold
              THEN [r2 EXCEPT !.trading_disabled = TRUE]
              ELSE r2
        r4 == IF r3.current_balance
                    <= r3.daily_start_balance - r3.daily_loss_limit
              THEN [r3 EXCEPT !.trading_disabled = TRUE]
              ELSE r3
    IN  r4

update_after_trade_forgets_balance(r, profit_loss) ==
    LET r1 == [r EXCEPT !.daily_realized_pl = @ + profit_loss,
                        !.current_balance = @]
        r2 == IF r1.current_balance > r1.peak_balance
              THEN [r1 EXCEPT !.peak_balance = r1.current_balance,
                              !.trailing_threshold =
                                  r1.current_balance - r1.max_drawdown]
              ELSE r1
        r3 == IF r2.current_balance < r2.trailing_threshold
              THEN [r2 EXCEPT !.trading_disabled = TRUE]
              ELSE r2
        r4 == IF r3.current_balance
                    <= r3.daily_start_balance - r3.daily_loss_limit
              THEN [r3 EXCEPT !.trading_disabled = TRUE]
              ELSE r3
    IN  r4

update_after_trade_skips_trailing(r, profit_loss) ==
    LET r1 == [r EXCEPT !.daily_realized_pl = @ + profit_loss,
                        !.current_balance = @ + profit_loss]
        r2 == IF r1.current_balance > r1.peak_balance
              THEN [r1 EXCEPT !.peak_balance = r1.current_balance,
                              !.trailing_threshold =
                                  r1.current_balance - r1.max_drawdown]
              ELSE r1
        r3 == IF FALSE
              THEN [r2 EXCEPT !.trading_disabled = TRUE]
              ELSE r2
        r4 == IF r3.current_balance
                    <= r3.daily_start_balance - r3.daily_loss_limit
              THEN [r3 EXCEPT !.trading_disabled = TRUE]
              ELSE r3
    IN  r4

update_after_trade(r, profit_loss) ==
    LET r1 == [r EXCEPT !.daily_realized_pl = @ + profit_loss,
                        !.current_balance = @ + profit_loss]
        r2 == IF r1.current_balance > r1.peak_balance
              THEN [r1 EXCEPT !.peak_balance = r1.current_balance,
                              !.trailing_threshold =
                                  r1.current_balance - r1.max_drawdown]
              ELSE r1
        r3 == IF r2.current_balance < r2.trailing_threshold
              THEN [r2 EXCEPT !.trading_disabled = TRUE]
              ELSE r2
        r4 == IF r3.current_balance
                    <= r3.daily_start_balance - r3.daily_loss_limit
              THEN [r3 EXCEPT !.trading_disabled = TRUE]
              ELSE r3
    IN  r4

allow_new_trade_always(r) == TRUE

allow_new_trade(r) == IF r.trading_disabled THEN FALSE ELSE TRUE

check_real_time_risk_trailing_le(r, unrealized_pl) ==
    LET equity == r.current_balance + unrealized_pl
    IN  IF r.trading_disabled
        THEN [rm |-> r, ret |-> TRUE]
        ELSE IF equity <= r.trailing_threshold
        THEN [rm |-> [r EXCEPT !.trading_disabled = TRUE], ret |-> TRUE]
        ELSE IF equity <= r.daily_start_balance - r.daily_loss_limit
        THEN [rm |-> [r EXCEPT !.trading_disabled = TRUE], ret |-> TRUE]
        ELSE [rm |-> r, ret |-> FALSE]

check_real_time_risk_quiet(r, unrealized_pl) ==
    LET equity == r.current_balance + unrealized_pl
    IN  IF r.trading_disabled
        THEN [rm |-> r, ret |-> TRUE]
        ELSE IF equity < r.trailing_threshold
        THEN [rm |-> r, ret |-> TRUE]
        ELSE IF equity <= r.daily_start_balance - r.daily_loss_limit
        THEN [rm |-> r, ret |-> TRUE]
        ELSE [rm |-> r, ret |-> FALSE]

check_real_time_risk_recomputes(r, unrealized_pl) ==
    LET equity == r.current_balance + unrealized_pl
    IN  IF FALSE
        THEN [rm |-> r, ret |-> TRUE]
        ELSE IF equity < r.trailing_threshold
        THEN [rm |-> [r EXCEPT !.trading_disabled = TRUE], ret |-> TRUE]
        ELSE IF equity <= r.daily_start_balance - r.daily_loss_limit
        THEN [rm |-> [r EXCEPT !.trading_disabled = TRUE], ret |-> TRUE]
        ELSE [rm |-> r, ret |-> FALSE]

\* check_real_time_risk: the object after the call and the value returned.
check_real_time_risk(r, unrealized_pl) ==
    LET equity == r.current_balance + unrealized_pl
    IN  IF r.trading_disabled
        THEN [rm |-> r, ret |-> TRUE]
        ELSE IF equity < r.trailing_threshold
        THEN [rm |-> [r EXCEPT !.trading_disabled = TRUE], ret |-> TRUE]
        ELSE IF equity <= r.daily_start_balance - r.daily_loss_limit
        THEN [rm |-> [r EXCEPT !.trading_disabled = TRUE], ret |-> TRUE]
        ELSE [rm |-> r, ret |-> FALSE]

\* calculate_pnl raises TypeError when it multiplies by None.
calculate_pnl_raises(entry, exit, size, pv) ==
    size # 0 /\ (pv = NoPointValue \/ entry = NoPrice \/ exit = NoPrice)

calculate_pnl(entry, exit, size, pv) ==
    IF size = 0 THEN 0 ELSE (exit - entry) * size * pv

check_kill_switch(r) == FALSE

(***************************************************************************)
(* The main loop (src/src/main.py, main).  A cycle is computed on a record *)
(* s of main's locals and the RiskManager object, plus a log of what the   *)
(* cycle did: the order calls, the P&L values passed to                    *)
(* update_after_trade, the pre-trade gate's answer, the continuous check.  *)
(***************************************************************************)
NoCheck == [called |-> FALSE, u |-> 0, ret |-> FALSE]

Side(pos) == IF pos > 0 THEN "sell" ELSE "buy"

CycleStart_resets_when_flat(day) ==
    LET newday == last_trade_time # NoTime /\ day # last_trade_time
                  /\ current_position = 0
    IN  [ pos         |-> current_position,
          entry       |-> entry_price,
          ltt         |-> IF newday THEN day ELSE last_trade_time,
          rm          |-> IF newday THEN reset_day(rm) ELSE rm,
          reset       |-> newday,
          orders      |-> << >>,
          updates     |-> << >>,
          gate        |-> "none",
          check       |-> NoCheck,
          mid_reached |-> FALSE,
          mid_pos     |-> 0,
          mid_entry   |-> NoPrice,
          disabled_at |-> -1,
          kill        |-> FALSE,
          exit        |-> "none" ]

\* Top of the while body: the new-day reset, then the cycle's empty log.
CycleStart(day) ==
    LET newday == last_trade_time # NoTime /\ day # last_trade_time
    IN  [ pos         |-> current_position,
          entry       |-> entry_price,
          ltt         |-> IF newday THEN day ELSE last_trade_time,
          rm          |-> IF newday THEN reset_day(rm) ELSE rm,
          reset       |-> newday,
          orders      |-> << >>,
          updates     |-> << >>,
          gate        |-> "none",
          check       |-> NoCheck,
          mid_reached |-> FALSE,
          mid_pos     |-> 0,
          mid_entry   |-> NoPrice,
          disabled_at |-> -1,
          kill        |-> FALSE,
          exit        |-> "none" ]

\* api.place_order / api.flatten_position: the call is logged with its
\* outcome (ok = it returned, ~ok = it raised).
send(s, site, side, size, ok) ==
    [s EXCEPT !.orders =
        Append(@, [site |-> site, side |-> side, size |-> size, ok |-> ok])]

\* risk_manager.update_after_trade(pl) called from the loop.
apply_update(s, pl) ==
    LET r == update_after_trade(s.rm, pl)
    IN  [s EXCEPT !.rm = r,
                  !.updates = Append(@, pl),
                  !.disabled_at = IF r.trading_disabled /\ ~s.rm.trading_disabled
                                  THEN Len(s.orders) ELSE @]

zero_position_keeps_entry(s) == [s EXCEPT !.pos = 0]

zero_position_forgets(s) == [s EXCEPT !.entry = NoPrice]

zero_position(s) == [s EXCEPT !.pos = 0, !.entry = NoPrice]

break_never(s) == s

break_if_disabled(s) ==
    IF s.rm.trading_disabled THEN [s EXCEPT !.exit = "break"] ELSE s

eod_flatten_gives_up(s, exit_price, ok) ==
    IF s.pos # 0
    THEN zero_position(send(s, "eod", Side(s.pos), Abs(s.pos), ok))
    ELSE s

\* After trading hours (lines 155-185).
eod_flatten(s, exit_price, ok) ==
    IF s.pos # 0
    THEN LET s1 == send(s, "eod", Side(s.pos), Abs(s.pos), ok)
         IN  IF ~ok THEN s1
             ELSE IF s1.entry # NoPrice /\ exit_price # NoPrice
             THEN IF calculate_pnl_raises(s1.entry, exit_price, s1.pos, point_value)
                  THEN s1
                  ELSE break_if_disabled(zero_position(
                         apply_update(s1, calculate_pnl(s1.entry, exit_price,
                                                        s1.pos, point_value))))
             ELSE break_if_disabled(zero_position(s1))
    ELSE s

\* Kill-switch branch (lines 209-218).
kill_switch(s, ok) ==
    LET s1 == IF s.pos # 0
              THEN send(s, "kill", Side(s.pos), Abs(s.pos), ok)
              ELSE s
    IN  [s1 EXCEPT !.exit = "break"]

\* Strategy FLAT close (lines 224-245).
flat_close(s, price, day, ok) ==
    LET s1 == send(s, "close", Side(s.pos), Abs(s.pos), ok)
    IN  IF s1.entry # NoPrice
           /\ calculate_pnl_raises(s1.entry, price, s1.pos, point_value)
        THEN [s1 EXCEPT !.exit = "raise"]
        ELSE LET s2 == IF s1.entry # NoPrice
                       THEN apply_update(s1, calculate_pnl(s1.entry, price,
                                                           s1.pos, point_value))
                       ELSE s1
             IN  break_if_disabled([zero_position(s2) EXCEPT !.ltt = day])

long_entry_unwinds_all(s, price, day, ok1, ok2) ==
    LET old_position == s.pos
        trade_size == (IF old_position < 0 THEN Abs(old_position) ELSE 0)
                      + base_order_size
        recorded(x) == [x EXCEPT !.pos = old_position + trade_size,
                                 !.entry = price,
                                 !.ltt = day]
    IN  IF ~allow_new_trade(s.rm)
        THEN [s EXCEPT !.gate = "blocked"]
        ELSE LET s1 == send([s EXCEPT !.gate = "allowed"],
                            "entry", "buy", trade_size, ok1)
             IN  IF ~ok1 THEN s1
                 ELSE IF old_position < 0
                 THEN IF calculate_pnl_raises(s1.entry, price, old_position,
                                              point_value)
                      THEN s1
                      ELSE LET s2 == apply_update(s1,
                                       calculate_pnl(s1.entry, price,
                                                     old_position, point_value))
                           IN  IF s2.rm.trading_disabled
                               THEN [zero_position(
                                       send(s2, "unwind", "sell",
                                            trade_size, ok2))
                                     EXCEPT !.exit = "break"]
                               ELSE recorded(s2)
                 ELSE recorded(s1)

\* LONG entry or flip (lines 247-278).
long_entry(s, price, day, ok1, ok2) ==
    LET old_position == s.pos
        trade_size == (IF old_position < 0 THEN Abs(old_position) ELSE 0)
                      + base_order_size
        recorded(x) == [x EXCEPT !.pos = old_position + trade_size,
                                 !.entry = price,
                                 !.ltt = day]
    IN  IF ~allow_new_trade(s.rm)
        THEN [s EXCEPT !.gate = "blocked"]
        ELSE LET s1 == send([s EXCEPT !.gate = "allowed"],
                            "entry", "buy", trade_size, ok1)
             IN  IF ~ok1 THEN s1
                 ELSE IF old_position < 0
                 THEN IF calculate_pnl_raises(s1.entry, price, old_position,
                                              point_value)
                      THEN s1
                      ELSE LET s2 == apply_update(s1,
                                       calculate_pnl(s1.entry, price,
                                                     old_position, point_value))
                           IN  IF s2.rm.trading_disabled
                               THEN [zero_position(
                                       send(s2, "unwind", "sell",
                                            base_order_size, ok2))
                                     EXCEPT !.exit = "break"]
                               ELSE recorded(s2)
                 ELSE recorded(s1)

short_entry_sends_base(s, price, day, ok1, ok2) ==
    LET old_position == s.pos
        trade_size == (IF old_position > 0 THEN old_position ELSE 0)
                      + base_order_size
        recorded(x) == [x EXCEPT !.pos = old_position - trade_size,
                                 !.entry = price,
                                 !.ltt = day]
    IN  IF ~allow_new_trade(s.rm)
        THEN [s EXCEPT !.gate = "blocked"]
        ELSE LET s1 == send([s EXCEPT !.gate = "allowed"],
                            "entry", "sell", base_order_size, ok1)
             IN  IF ~ok1 THEN s1
                 ELSE IF old_position > 0
                 THEN IF calculate_pnl_raises(s1.entry, price, old_position,
                                              point_value)
                      THEN s1
                      ELSE LET s2 == apply_update(s1,
                                       calculate_pnl(s1.entry, price,
                                                     old_position, point_value))
                           IN  IF s2.rm.trading_disabled
                               THEN [zero_position(
                                       send(s2, "unwind", "buy",
                                            base_order_size, ok2))
                                     EXCEPT !.exit = "break"]
                               ELSE recorded(s2)
                 ELSE recorded(s1)

\* SHORT entry or flip (lines 280-311).
short_entry(s, price, day, ok1, ok2) ==
    LET old_position == s.pos
        trade_size == (IF old_position > 0 THEN old_position ELSE 0)
                      + base_order_size
        recorded(x) == [x EXCEPT !.pos = old_position - trade_size,
                                 !.entry = price,
                                 !.ltt = day]
    IN  IF ~allow_new_trade(s.rm)
        THEN [s EXCEPT !.gate = "blocked"]
        ELSE LET s1 == send([s EXCEPT !.gate = "allowed"],
                            "entry", "sell", trade_size, ok1)
             IN  IF ~ok1 THEN s1
                 ELSE IF old_position > 0
                 THEN IF calculate_pnl_raises(s1.entry, price, old_position,
                                              point_value)
                      THEN s1
                      ELSE LET s2 == apply_update(s1,
                                       calculate_pnl(s1.entry, price,
                                                     old_position, point_value))
                           IN  IF s2.rm.trading_disabled
                               THEN [zero_position(
                                       send(s2, "unwind", "buy",
                                            base_order_size, ok2))
                                     EXCEPT !.exit = "break"]
                               ELSE recorded(s2)
                 ELSE recorded(s1)

\* Execute strategy recommendation (lines 220-311).
transition(s, recommended_pos, price, day, ok1, ok2) ==
    IF recommended_pos = NoSignal THEN s
    ELSE IF recommended_pos = 0 /\ s.pos # 0
    THEN flat_close(s, price, day, ok1)
    ELSE IF recommended_pos = 1 /\ s.pos <= 0
    THEN long_entry(s, price, day, ok1, ok2)
    ELSE IF recommended_pos = -1 /\ s.pos >= 0
    THEN short_entry(s, price, day, ok1, ok2)
    ELSE s

\* Continuous risk check (lines 313-327).
risk_check(s, price, ok) ==
    IF s.pos # 0 /\ s.entry # NoPrice
    THEN IF calculate_pnl_raises(s.entry, price, s.pos, point_value)
         THEN [s EXCEPT !.exit = "raise"]
         ELSE LET unrealized_pl == calculate_pnl(s.entry, price, s.pos,
                                                 point_value)
                  c  == check_real_time_risk(s.rm, unrealized_pl)
                  s1 == [s EXCEPT
                           !.rm = c.rm,
                           !.check = [called |-> TRUE, u |-> unrealized_pl,
                                      ret |-> c.ret],
                           !.disabled_at =
                               IF c.rm.trading_disabled /\ ~s.rm.trading_disabled
                               THEN Len(s.orders) ELSE @]
              IN  IF c.ret
                  THEN [zero_position(send(s1, "risk", Side(s1.pos),
                                           Abs(s1.pos), ok))
                        EXCEPT !.exit = "break"]
                  ELSE s1
    ELSE s

\* Line 209: the test of the kill switch.  The predicate of the running
\* configuration is check_kill_switch; when another one is plugged in, its
\* answer is an input of the pass.
kill_switch_activated(s) ==
    IF config.kill_plugged THEN s.kill ELSE check_kill_switch(s.rm)

\* A cycle within trading hours with a price (lines 205-330).
trade_cycle(s, recommended_pos, price, day, ok1, ok2, ok3) ==
    IF kill_switch_activated(s)
    THEN kill_switch(s, ok1)
    ELSE LET t == transition(s, recommended_pos, price, day, ok1, ok2)
         IN  IF t.exit # "none" THEN t
             ELSE risk_check([t EXCEPT !.mid_reached = TRUE,
                                       !.mid_pos = t.pos,
                                       !.mid_entry = t.entry],
                             price, ok3)

\* The ways a pass within trading hours ends up without a price:
\* get_latest_price raised and api.connect() then returned, get_latest_price
\* raised and api.connect() raised too, get_latest_price returned None.
PriceFailures == {"reconnected", "noreconnect", "noprice"}

price_failure_fatal(s, how) ==
    IF how = "noreconnect" THEN [s EXCEPT !.exit = "raise"] ELSE s

\* Lines 188-203: both except clauses and the None test end in continue.
price_failure(s, how) == s

finally_wrong_side(s, ok) ==
    IF s.pos # 0
    THEN send(s, "exit", IF s.pos > 0 THEN "buy" ELSE "sell", Abs(s.pos), ok)
    ELSE s

\* The finally clause (lines 335-345).
finally(s, ok) ==
    IF s.pos # 0
    THEN send(s, "exit", Side(s.pos), Abs(s.pos), ok)
    ELSE s

(***************************************************************************)
(* Actions of the main loop.  Each is one pass through the while body; a   *)
(* pass that leaves the loop (break, or an exception reaching the outer    *)
(* except) runs the finally clause in the same step; any other pass ends   *)
(* asleep, and LoopBack starts the next one.  datetime.now() is            *)
(* an input of each pass: its date never goes back, its time of day is     *)
(* before start_time, within trading hours, or at or after end_time.       *)
(***************************************************************************)
Days == {d \in 0..MaxDay : d >= now}

\* The outcomes to try for an order call: both when the call can be
\* reached, one otherwise.
Outcomes(reached) == IF reached THEN BOOLEAN ELSE {TRUE}

Commit(s0, s, branch, recommended_pos, price, day, ok4) ==
    \E f \in {IF s.exit # "none" THEN finally(s, ok4) ELSE s} :
        /\ f.rm.current_balance <= MaxBalance
        /\ rm' = f.rm
        /\ current_position' = f.pos
        /\ entry_price' = f.entry
        /\ last_trade_time' = f.ltt
        /\ now' = day
        /\ pc' = IF f.exit = "none" THEN "sleep" ELSE "done"
        /\ orders' = f.orders
        /\ cyc' = [ branch      |-> branch,
                    rec         |-> recommended_pos,
                    price       |-> price,
                    reset       |-> f.reset,
                    pre_pos     |-> s0.pos,
                    pre_entry   |-> s0.entry,
                    rm_same     |-> (f.rm = s0.rm),
                    newday      |-> (day # now),
                    mid_reached |-> f.mid_reached,
                    mid_pos     |-> f.mid_pos,
                    mid_entry   |-> f.mid_entry,
                    gate        |-> f.gate,
                    updates     |-> f.updates,
                    check       |-> f.check,
                    disabled_at |-> f.disabled_at,
                    exit        |-> f.exit ]
        /\ today' = IF day # now
                    THEN [start_balance |-> rm.current_balance,
                          realized      |-> SumSeq(f.updates)]
                    ELSE [today EXCEPT !.realized = @ + SumSeq(f.updates)]
        /\ account' = Book(account, f.orders)
        /\ UNCHANGED <<base_order_size, point_value, call, config, strategy>>

\* Lines 146-152: before the trading window.  When the trading hours could
\* not be parsed start_time is 00:00:00 and no time of day is before it.
CycleBeforeHours ==
    /\ pc = "cycle"
    /\ config.hours_ok
    /\ \E day \in Days :
         \E s0 \in {CycleStart(day)} :
           Commit(s0, s0, "before", NoSignal, NoPrice, day, TRUE)

\* Lines 154-185: after trading hours.  exit_price = NoPrice when the
\* price fetch at line 160 raised.
CycleAfterHours ==
    /\ pc = "cycle"
    /\ \E day \in Days :
         \E s0 \in {CycleStart(day)} :
           \E exit_price \in IF s0.pos # 0 THEN Prices \cup {NoPrice}
                                          ELSE {NoPrice},
              ok1 \in Outcomes(s0.pos # 0) :
             \E s \in {eod_flatten(s0, exit_price, ok1)} :
               \E ok4 \in Outcomes(s.exit # "none" /\ s.pos # 0) :
                 Commit(s0, s, "after", NoSignal, exit_price, day, ok4)

\* Lines 187-203: get_latest_price raised, or returned None.
CyclePriceFailure ==
    /\ pc = "cycle"
    /\ \E day \in Days, how \in PriceFailures :
         \E s0 \in {CycleStart(day)} :
           \E s \in {price_failure(s0, how)} :
             \E ok4 \in Outcomes(s.exit # "none" /\ s.pos # 0) :
               Commit(s0, s, how, NoSignal, NoPrice, day, ok4)

\* Line 206: recommend_position of the configured strategy class raised;
\* the exception reaches the except clause at line 333.
CycleStrategyRaises ==
    /\ pc = "cycle"
    /\ \E day \in Days, price \in Prices :
         \E s0 \in {CycleStart(day)} :
           \E ok4 \in Outcomes(s0.pos # 0) :
             Commit(s0, [s0 EXCEPT !.exit = "raise"], "stratraise",
                    NoSignal, price, day, ok4)

\* The answers the plugged kill-switch predicate can give in a pass.
KillAnswers == IF config.kill_plugged THEN BOOLEAN ELSE {FALSE}

\* Lines 205-330: a cycle with a price and the strategy's answer.
CycleTrade ==
    /\ pc = "cycle"
    /\ \E day \in Days, price \in Prices, recommended_pos \in Signals,
          kill \in KillAnswers :
         \E s0 \in {[CycleStart(day) EXCEPT !.kill = kill]} :
           \E ok1 \in Outcomes(recommended_pos # NoSignal
                               \/ kill_switch_activated(s0)) :
             \E ok2 \in Outcomes(ok1 /\ recommended_pos * s0.pos < 0) :
               \E tr \in {transition(s0, recommended_pos, price, day,
                                    ok1, ok2)} :
                 \E ok3 \in Outcomes(tr.exit = "none" /\ tr.pos # 0) :
                   \E s \in {trade_cycle(s0, recommended_pos, price, day,
                                         ok1, ok2, ok3)} :
                     \E ok4 \in Outcomes(s.exit # "none" /\ s.pos # 0) :
                       Commit(s0, s, "trade", recommended_pos, price, day, ok4)

\* Lines 331-345: KeyboardInterrupt while the loop sleeps between two
\* cycles, then the finally clause.
Interrupt ==
    /\ pc = "sleep"
    /\ \E ok4 \in Outcomes(current_position # 0) :
         \E f \in {finally([pos |-> current_position, orders |-> << >>],
                           ok4)} :
           /\ orders' = orders \o f.orders
           /\ account' = Book(account, f.orders)
    /\ cyc' = [cyc EXCEPT !.exit = "interrupt"]
    /\ pc' = "done"
    /\ UNCHANGED <<rm, current_position, entry_price, last_trade_time,
                   base_order_size, point_value, now, call, config, strategy,
                   today, account>>

NoCycle ==
    [ branch      |-> "init",
      rec         |-> NoSignal,
      price       |-> NoPrice,
      reset       |-> FALSE,
      pre_pos     |-> 0,
      pre_entry   |-> NoPrice,
      rm_same     |-> TRUE,
      newday      |-> FALSE,
      mid_reached |-> FALSE,
      mid_pos     |-> 0,
      mid_entry   |-> NoPrice,
      gate        |-> "none",
      updates     |-> << >>,
      check       |-> NoCheck,
      disabled_at |-> -1,
      exit        |-> "none" ]

\* The sleep ends (or continue is taken): back to the top of the while
\* body, where a new pass starts its own log.
LoopBack ==
    /\ pc = "sleep"
    /\ pc' = "cycle"
    /\ orders' = << >>
    /\ cyc' = NoCycle
    /\ UNCHANGED <<rm, current_position, entry_price, last_trade_time,
                   base_order_size, point_value, now, call, config, strategy,
                   today, account>>

\* The configuration of a run that reached the loop with its trading
\* hours parsed: the limits the RiskManager was built with.
ValidConfig ==
    [ daily_loss_limit |-> rm.daily_loss_limit,
      max_drawdown     |-> rm.max_drawdown,
      hours_ok         |-> TRUE,
      kill_plugged     |-> FALSE ]

\* No BasicStrategy object is followed: the loop takes the answer of the
\* configured strategy class as an input of each pass.
NoStrategy == [short_window |-> 0, long_window |-> 0]

StartOfRun == [start_balance |-> StartingBalance, realized |-> 0]

NoCall == [op |-> "init", arg |-> 0, ret |-> FALSE, pre |-> rm, applied |-> 0]

\* main up to "Entering main trading loop" (lines 52-136).
Init ==
    /\ \E dll \in Limits, mdd \in Limits :
         rm = NewRiskManager(StartingBalance, dll, mdd)
    /\ current_position = 0
    /\ entry_price = NoPrice
    /\ last_trade_time = NoTime
    /\ base_order_size \in BaseSizes
    /\ point_value \in PointValues
    /\ now = 0
    /\ pc = "cycle"
    /\ orders = << >>
    /\ cyc = NoCycle
    /\ call = NoCall
    /\ config = ValidConfig
    /\ strategy = NoStrategy
    /\ today = StartOfRun
    /\ account = NoAccount

Next ==
    \/ CycleBeforeHours
    \/ CycleAfterHours
    \/ CyclePriceFailure
    \/ CycleStrategyRaises
    \/ CycleTrade
    \/ LoopBack
    \/ Interrupt

Spec == Init /\ [][Next]_vars

(***************************************************************************)
(* The run with a kill-switch predicate plugged in at line 209 in place of *)
(* the stub: in each pass within trading hours it may answer True.         *)
(***************************************************************************)
InitKill ==
    /\ \E dll \in Limits, mdd \in Limits :
         rm = NewRiskManager(StartingBalance, dll, mdd)
    /\ current_position = 0
    /\ entry_price = NoPrice
    /\ last_trade_time = NoTime
    /\ base_order_size \in BaseSizes
    /\ point_value \in PointValues
    /\ now = 0
    /\ pc = "cycle"
    /\ orders = << >>
    /\ cyc = NoCycle
    /\ call = NoCall
    /\ config = [ValidConfig EXCEPT !.kill_plugged = TRUE]
    /\ strategy = NoStrategy
    /\ today = StartOfRun
    /\ account = NoAccount

SpecKill == InitKill /\ [][Next]_vars

(***************************************************************************)
(* The pass through the while body taken from any tracked position and     *)
(* any state of the trading_disabled flag: the loop body as a function of  *)
(* main's locals and the RiskManager object.  What the gateway received    *)
(* before the pass is not part of it: the sum of the orders is not         *)
(* followed.                                                               *)
(***************************************************************************)
InitGate ==
    /\ \E dll \in Limits, mdd \in Limits, disabled \in BOOLEAN :
         rm = [NewRiskManager(StartingBalance, dll, mdd)
                 EXCEPT !.trading_disabled = disabled]
    /\ base_order_size \in BaseSizes
    /\ point_value \in PointValues
    /\ \E dir \in {-1, 0, 1}, entry \in Prices :
         /\ current_position = dir * base_order_size
         /\ entry_price = IF dir = 0 THEN NoPrice ELSE entry
    /\ last_trade_time = NoTime
    /\ now = 0
    /\ pc = "cycle"
    /\ orders = << >>
    /\ cyc = NoCycle
    /\ call = NoCall
    /\ config = ValidConfig
    /\ strategy = NoStrategy
    /\ today = StartOfRun
    /\ account = Unfollowed

SpecGate == InitGate /\ [][Next]_vars

(***************************************************************************)
(* The run from the start of main: the configuration is read and checked,  *)
(* then the loop is entered or main returns.                               *)
(***************************************************************************)
\* risk.daily_loss_limit, risk.max_drawdown and whether both trading-hours
\* strings parse with "%H:%M:%S".
Configs ==
    [ daily_loss_limit : (0 - 1)..MaxLimit,
      max_drawdown     : (0 - 1)..MaxLimit,
      hours_ok         : BOOLEAN,
      kill_plugged     : {FALSE} ]

\* risk_manager before line 115 binds it.
NoRiskManager == NewRiskManager(0, 0, 0)

InitStartup ==
    /\ config \in Configs
    /\ rm = NoRiskManager
    /\ current_position = 0
    /\ entry_price = NoPrice
    /\ last_trade_time = NoTime
    /\ base_order_size \in BaseSizes
    /\ point_value \in PointValues
    /\ now = 0
    /\ pc = "startup"
    /\ orders = << >>
    /\ cyc = NoCycle
    /\ call = NoCall
    /\ strategy = NoStrategy
    /\ today = StartOfRun
    /\ account = NoAccount

\* Lines 110-136: non-positive limits make main return; trading hours that
\* do not parse are replaced by the full-day window and the loop is entered.
Startup ==
    /\ pc = "startup"
    /\ IF config.daily_loss_limit <= 0 \/ config.max_drawdown <= 0
       THEN /\ pc' = "aborted"
            /\ rm' = rm
       ELSE /\ pc' = "cycle"
            /\ rm' = NewRiskManager(StartingBalance, config.daily_loss_limit,
                                    config.max_drawdown)
    /\ UNCHANGED <<current_position, entry_price, last_trade_time,
                   base_order_size, point_value, now, orders, cyc, call,
                   config, strategy, today, account>>

NextStartup == Startup \/ Next

SpecStartup == InitStartup /\ [][NextStartup]_vars

(***************************************************************************)
(* BasicStrategy (src/src/strategy/basic_strategy.py) driven directly: an  *)
(* object built with short_window < long_window is fed any prices.         *)
(***************************************************************************)
Windows == 1..MaxWindow

\* BasicStrategy.__init__.  The two deques are bounded by the windows given
\* to the constructor.  fed and ret are the prices passed to
\* recommend_position so far and the value its latest call returned.
NewBasicStrategy(short_window, long_window) ==
    [ short_window  |-> short_window,
      long_window   |-> long_window,
      short_maxlen  |-> short_window,
      long_maxlen   |-> long_window,
      short_prices  |-> << >>,
      long_prices   |-> << >>,
      short_sum     |-> 0,
      long_sum      |-> 0,
      fed           |-> << >>,
      ret           |-> NoSignal ]

\* deque.append on a deque built with maxlen: a full deque drops its
\* oldest element.
deque_append(q, x, maxlen) ==
    IF Len(q) >= maxlen THEN Append(Tail(q), x) ELSE Append(q, x)

recommend_position_short_ready(st, price) ==
    LET l1  == deque_append(st.long_prices, price, st.long_maxlen)
        ls1 == st.long_sum + price
        lpop == Len(l1) > st.long_window
        l2  == IF lpop THEN Tail(l1) ELSE l1
        ls2 == IF lpop THEN ls1 - Head(l1) ELSE ls1
        s1  == deque_append(st.short_prices, price, st.short_maxlen)
        ss1 == st.short_sum + price
        spop == Len(s1) > st.short_window
        s2  == IF spop THEN Tail(s1) ELSE s1
        ss2 == IF spop THEN ss1 - Head(s1) ELSE ss1
        st2 == [st EXCEPT !.long_prices = l2, !.long_sum = ls2,
                          !.short_prices = s2, !.short_sum = ss2]
    IN  IF Len(s2) < st.short_window
        THEN [strategy |-> st2, ret |-> NoSignal]
        ELSE IF ss2 * Len(l2) > ls2 * Len(s2)
        THEN [strategy |-> st2, ret |-> 1]
        ELSE IF ss2 * Len(l2) < ls2 * Len(s2)
        THEN [strategy |-> st2, ret |-> -1]
        ELSE [strategy |-> st2, ret |-> 0]

\* BasicStrategy.recommend_position: the object after the call and the
\* value returned.  short_ma > long_ma is compared as
\* short_sum * len(long_prices) > long_sum * len(short_prices), both
\* lengths being positive.
recommend_position(st, price) ==
    LET l1  == deque_append(st.long_prices, price, st.long_maxlen)
        ls1 == st.long_sum + price
        lpop == Len(l1) > st.long_window
        l2  == IF lpop THEN Tail(l1) ELSE l1
        ls2 == IF lpop THEN ls1 - Head(l1) ELSE ls1
        s1  == deque_append(st.short_prices, price, st.short_maxlen)
        ss1 == st.short_sum + price
        spop == Len(s1) > st.short_window
        s2  == IF spop THEN Tail(s1) ELSE s1
        ss2 == IF spop THEN ss1 - Head(s1) ELSE ss1
        st2 == [st EXCEPT !.long_prices = l2, !.long_sum = ls2,
                          !.short_prices = s2, !.short_sum = ss2]
    IN  IF Len(l2) < st.long_window
        THEN [strategy |-> st2, ret |-> NoSignal]
        ELSE IF ss2 * Len(l2) > ls2 * Len(s2)
        THEN [strategy |-> st2, ret |-> 1]
        ELSE IF ss2 * Len(l2) < ls2 * Len(s2)
        THEN [strategy |-> st2, ret |-> -1]
        ELSE [strategy |-> st2, ret |-> 0]

InitStrategy ==
    /\ \E short_window \in Windows, long_window \in Windows :
         /\ short_window < long_window
         /\ strategy = NewBasicStrategy(short_window, long_window)
    /\ rm = NoRiskManager
    /\ current_position = 0
    /\ entry_price = NoPrice
    /\ last_trade_time = NoTime
    /\ base_order_size = 1
    /\ point_value = NoPointValue
    /\ now = 0
    /\ pc = "cycle"
    /\ orders = << >>
    /\ cyc = NoCycle
    /\ call = NoCall
    /\ config = ValidConfig
    /\ today = StartOfRun
    /\ account = NoAccount

StrategyRecommend ==
    /\ Len(strategy.fed) < MaxCalls
    /\ \E price \in Prices :
         \E r \in {recommend_position(strategy, price)} :
           strategy' = [r.strategy EXCEPT !.fed = Append(@, price),
                                          !.ret = r.ret]
    /\ UNCHANGED <<rm, current_position, entry_price, last_trade_time,
                   base_order_size, point_value, now, pc, orders, cyc, call,
                   config, today, account>>

NextStrategy == StrategyRecommend

SpecStrategy == InitStrategy /\ [][NextStrategy]_vars

(***************************************************************************)
(* The strategy object as main hands it to the loop: built with any two    *)
(* windows, then adjusted when short_window >= long_window.                *)
(***************************************************************************)
\* main lines 83-89: the attribute long_window is overwritten; the deques
\* keep the maxlen they were built with.
adjust_windows(st) ==
    IF st.short_window >= st.long_window
    THEN [st EXCEPT !.long_window = st.short_window + 1]
    ELSE st

InitAdjusted ==
    /\ \E short_window \in Windows, long_window \in Windows :
         strategy = adjust_windows(NewBasicStrategy(short_window, long_window))
    /\ rm = NoRiskManager
    /\ current_position = 0
    /\ entry_price = NoPrice
    /\ last_trade_time = NoTime
    /\ base_order_size = 1
    /\ point_value = NoPointValue
    /\ now = 0
    /\ pc = "cycle"
    /\ orders = << >>
    /\ cyc = NoCycle
    /\ call = NoCall
    /\ config = ValidConfig
    /\ today = StartOfRun
    /\ account = NoAccount

SpecAdjusted == InitAdjusted /\ [][NextStrategy]_vars

(***************************************************************************)
(* The RiskManager driven directly: any sequence of its calls.             *)
(***************************************************************************)
InWindow(r) ==
    /\ r.current_balance >= MinBalance
    /\ r.current_balance <= MaxBalance

RiskCall(op, arg, ret, r) ==
    /\ InWindow(r)
    /\ rm' = r
    /\ call' = [op |-> op, arg |-> arg, ret |-> ret, pre |-> rm,
                applied |-> IF op = "update_after_trade"
                            THEN call.applied + arg ELSE call.applied]
    /\ UNCHANGED <<current_position, entry_price, last_trade_time,
                   base_order_size, point_value, now, pc, orders, cyc,
                   config, strategy, today, account>>

RiskResetDay == RiskCall("reset_day", 0, FALSE, reset_day(rm))

RiskUpdateAfterTrade ==
    \E profit_loss \in Pls :
        RiskCall("update_after_trade", profit_loss, FALSE,
                 update_after_trade(rm, profit_loss))

RiskAllowNewTrade == RiskCall("allow_new_trade", 0, allow_new_trade(rm), rm)

RiskCheckRealTimeRisk ==
    \E unrealized_pl \in Pls :
        \E c \in {check_real_time_risk(rm, unrealized_pl)} :
            RiskCall("check_real_time_risk", unrealized_pl, c.ret, c.rm)

NextRisk ==
    \/ RiskResetDay
    \/ RiskUpdateAfterTrade
    \/ RiskAllowNewTrade
    \/ RiskCheckRealTimeRisk

SpecRisk == Init /\ [][NextRisk]_vars

(***************************************************************************)
(* Properties of the main loop.  They are stated on the state a pass       *)
(* leaves behind: main's locals, the RiskManager, and the pass's log.      *)
(***************************************************************************)
OrderIndex == 1..Len(orders)

HasOrder(site) == \E i \in OrderIndex : orders[i].site = site

\* The flag was already set when the pass started.
PreDisabled == rm.trading_disabled /\ cyc.disabled_at = -1

\* An order a position-changing branch of the loop body placed.
LoopSites == {"close", "entry", "unwind", "risk"}

\* C1: whenever an order call of the FLAT close, the entry or flip, the
\* post-trade unwind or the risk-forced flatten fails, the tracked position,
\* the entry price and the RiskState are after the pass what they were
\* before it.
C1_FailedOrderChangesNothing ==
    (\E i \in OrderIndex : orders[i].site \in LoopSites /\ ~orders[i].ok)
        => /\ current_position = cyc.pre_pos
           /\ entry_price = cyc.pre_entry
           /\ cyc.rm_same

\* C2: at every cycle boundary and at loop exit, entry_price is None
\* exactly when the tracked position is 0.
C2_EntryPriceIffPosition == (entry_price = NoPrice) <=> (current_position = 0)

C2_Witness ==
    /\ cyc.branch = "trade"
    /\ cyc.pre_pos < 0
    /\ current_position > 0
    /\ entry_price = cyc.price

\* The orders of the pass that closed a position, were filled, and had a
\* price to compute the P&L with: the FLAT close, the covered leg of a flip,
\* the end-of-day flatten, the risk-forced flatten and the post-trade
\* unwind.
Closes ==
    {i \in OrderIndex :
        /\ orders[i].ok
        /\ cyc.price # NoPrice
        /\ \/ orders[i].site \in {"close", "eod", "risk", "unwind"}
           \/ orders[i].site = "entry" /\ cyc.pre_pos # 0}

\* C3: every close the loop performs has its P&L passed to
\* update_after_trade: a pass makes at least as many update_after_trade
\* calls as it closes positions.
C3_EveryCloseUpdates == Cardinality(Closes) <= Len(cyc.updates)

\* C4: once trading_disabled is set, the loop has been left by break in
\* that same pass (no later pass starts), and no entry order follows the
\* moment the flag was set.
C4_DisabledIsTerminal ==
    rm.trading_disabled
        => /\ pc = "done"
           /\ cyc.exit = "break"
           /\ \A i \in OrderIndex :
                i > cyc.disabled_at => orders[i].site # "entry"

C4_Witness ==
    /\ rm.trading_disabled
    /\ pc = "done"
    /\ cyc.rec = 0
    /\ Len(cyc.updates) = 1

\* C5: in a pass in which allow_new_trade() returns false no entry order
\* is placed and the suppressed entry leaves position, entry price and
\* RiskState as they were, while a FLAT close the strategy asks for is
\* placed whatever the value of trading_disabled.
C5_GateSuppressesEntry ==
    /\ (cyc.branch = "trade" /\ PreDisabled)
          => /\ ~HasOrder("entry")
             /\ cyc.rec \in {-1, 1}
                  => /\ cyc.mid_pos = cyc.pre_pos
                     /\ cyc.mid_entry = cyc.pre_entry
                     /\ cyc.rm_same
    /\ (cyc.branch = "trade" /\ cyc.rec = 0 /\ cyc.pre_pos # 0)
          => /\ Len(orders) >= 1
             /\ orders[1].site = "close"
             /\ orders[1].size = Abs(cyc.pre_pos)

C5_Witness ==
    /\ cyc.gate = "blocked"
    /\ cyc.pre_pos # 0
    /\ PreDisabled

\* A flip was filled and the update_after_trade call for the covered
\* position set trading_disabled.
FlipBreach ==
    /\ cyc.branch = "trade"
    /\ cyc.rec \in {-1, 1}
    /\ cyc.rec * cyc.pre_pos < 0
    /\ Len(orders) >= 1
    /\ orders[1].site = "entry"
    /\ orders[1].ok
    /\ Len(cyc.updates) = 1
    /\ cyc.disabled_at = 1
    /\ ~cyc.check.called

\* C6: after such a flip the loop issues one unwind order of base_order_size
\* on the side opposite to the entry order, leaves the tracked position at 0
\* with no entry price, and terminates.
C6_FlipBreachUnwinds ==
    FlipBreach
        => /\ Len(orders) = 2
           /\ orders[2].site = "unwind"
           /\ orders[2].size = base_order_size
           /\ orders[2].side # orders[1].side
           /\ current_position = 0
           /\ entry_price = NoPrice
           /\ pc = "done"
           /\ cyc.exit = "break"

C6_Witness == FlipBreach /\ rm.trading_disabled /\ Len(orders) = 2

\* C7 as claimed, for the passes that no exception ends: a pass, the
\* flatten on exit included, sends at most 2 orders, and has 2 orders
\* accepted by the gateway only when the post-trade gate triggers.
C7_TwoOnlyOnUnwind ==
    cyc.exit # "raise"
        => /\ Len(orders) <= 2
           /\ Cardinality({i \in OrderIndex : orders[i].ok}) = 2
                => HasOrder("unwind")

\* C7 as amended: at most 2 order calls; 2 when the post-trade gate
\* triggers, when a flip order that failed is followed by the risk-forced
\* flatten, or when the flatten on exit follows an order call of the pass
\* after an interrupt or an exception.
C7_OrdersPerCycle ==
    /\ Len(orders) <= 2
    /\ Len(orders) = 2
         => \/ orders[1].site = "entry" /\ orders[2].site = "unwind"
            \/ /\ orders[1].site = "entry" /\ ~orders[1].ok
               /\ orders[2].site = "risk"
            \/ /\ orders[2].site = "exit"
               /\ cyc.exit \in {"interrupt", "raise"}

C7_Witness ==
    /\ Len(orders) = 2
    /\ orders[1].site = "entry"
    /\ orders[1].ok
    /\ orders[2].site = "exit"
    /\ cyc.exit = "interrupt"

\* C8: a pass that ends its transition logic with a non-zero position calls
\* check_real_time_risk with that position's unrealized P&L at the latest
\* price; when the call returns true the loop sends one flatten order of
\* abs(position) on the opposite side, zeroes the position and terminates.
C8_ContinuousCheck ==
    (cyc.mid_reached /\ cyc.mid_pos # 0)
        => /\ cyc.check.called
           /\ cyc.check.u = (cyc.price - cyc.mid_entry) * cyc.mid_pos
                                * point_value
           /\ cyc.check.ret
                => /\ orders[Len(orders)].site = "risk"
                   /\ orders[Len(orders)].size = Abs(cyc.mid_pos)
                   /\ orders[Len(orders)].side =
                          (IF cyc.mid_pos > 0 THEN "sell" ELSE "buy")
                   /\ current_position = 0
                   /\ pc = "done"

\* C9: whenever the loop has been left with a non-zero tracked position,
\* the last order call of the run is the one flatten of abs(position) on
\* the side opposite to the position.
C9_FlattenOnExit ==
    (pc = "done" /\ current_position # 0)
        => /\ Len(orders) >= 1
           /\ orders[Len(orders)].site = "exit"
           /\ orders[Len(orders)].size = Abs(current_position)
           /\ current_position > 0 => orders[Len(orders)].side = "sell"
           /\ current_position < 0 => orders[Len(orders)].side = "buy"
           /\ Cardinality({i \in OrderIndex : orders[i].site = "exit"}) = 1

C9_Witness ==
    /\ pc = "done"
    /\ current_position # 0
    /\ cyc.exit = "raise"
    /\ HasOrder("exit")

(***************************************************************************)
(* Properties of the RiskManager driven directly.                          *)
(***************************************************************************)
\* C10: once trading_disabled is true it is true in every later state,
\* whichever of reset_day, update_after_trade, allow_new_trade and
\* check_real_time_risk is called.
C10_DisabledStaysDisabled ==
    [][rm.trading_disabled => rm'.trading_disabled]_vars

C10_Witness == rm.trading_disabled /\ call.op = "reset_day"

\* The latest call was update_after_trade(call.arg) on the object call.pre.
UpdateCalled == call.op = "update_after_trade"

\* The latest call was check_real_time_risk(call.arg) on the object call.pre.
CheckCalled == call.op = "check_real_time_risk"

\* current_balance + profit_loss, and current_balance + unrealized_pl, of
\* the latest call.
NewBalance == call.pre.current_balance + call.arg

Equity == call.pre.current_balance + call.arg

DailyThreshold == call.pre.daily_start_balance - call.pre.daily_loss_limit

\* C11: after update_after_trade(pl), trading_disabled is true whenever the
\* new balance is below the trailing threshold (the one held before the
\* call or the one the call left) or at or below daily_start_balance -
\* daily_loss_limit.
C11_BreachDisables ==
    UpdateCalled
        => ((\/ NewBalance < call.pre.trailing_threshold
             \/ NewBalance < rm.trailing_threshold
             \/ NewBalance <= DailyThreshold)
              => rm.trading_disabled)

C11_Witness ==
    /\ UpdateCalled
    /\ ~call.pre.trading_disabled
    /\ NewBalance = DailyThreshold
    /\ NewBalance >= rm.trailing_threshold
    /\ rm.trading_disabled

\* C12: when trading_disabled was false before update_after_trade(pl) and
\* the new balance is at or above the trailing threshold and above
\* daily_start_balance - daily_loss_limit, trading_disabled is false after
\* the call.
C12_NoBreachStaysEnabled ==
    (/\ UpdateCalled
     /\ ~call.pre.trading_disabled
     /\ \/ NewBalance >= call.pre.trailing_threshold
        \/ NewBalance >= rm.trailing_threshold
     /\ NewBalance > DailyThreshold)
        => ~rm.trading_disabled

C12_Witness ==
    /\ UpdateCalled
    /\ call.arg < 0
    /\ call.pre.peak_balance > rm.starting_balance
    /\ call.pre.trailing_threshold > rm.starting_balance - rm.max_drawdown
    /\ NewBalance >= call.pre.trailing_threshold
    /\ ~rm.trading_disabled

\* C13: in update_after_trade and in check_real_time_risk alike, starting
\* with trading enabled, a balance (equity) equal to daily_start_balance -
\* daily_loss_limit disables trading, and one equal to trailing_threshold
\* and above the daily level does not.
C13_BoundaryAsymmetry ==
    /\ (UpdateCalled /\ ~call.pre.trading_disabled)
          => /\ NewBalance = DailyThreshold => rm.trading_disabled
             /\ (NewBalance = rm.trailing_threshold
                 /\ NewBalance > DailyThreshold) => ~rm.trading_disabled
    /\ (CheckCalled /\ ~call.pre.trading_disabled)
          => /\ Equity = DailyThreshold => (rm.trading_disabled /\ call.ret)
             /\ (Equity = call.pre.trailing_threshold
                 /\ Equity > DailyThreshold)
                   => (~rm.trading_disabled /\ ~call.ret)

C13_Witness ==
    /\ CheckCalled
    /\ ~call.pre.trading_disabled
    /\ Equity = call.pre.trailing_threshold
    /\ Equity > DailyThreshold
    /\ ~call.ret

\* C14: in every state reachable by RiskManager calls, trailing_threshold
\* equals peak_balance - max_drawdown.
C14_ThresholdTracksPeak ==
    rm.trailing_threshold = rm.peak_balance - rm.max_drawdown

C14_Witness ==
    /\ UpdateCalled
    /\ rm.peak_balance > call.pre.peak_balance
    /\ rm.peak_balance = rm.current_balance

\* C15: update_after_trade(pl) sets peak_balance to current_balance + pl
\* and trailing_threshold to that peak minus max_drawdown exactly when
\* current_balance + pl > peak_balance, and keeps both otherwise.
C15_PeakRaisedExactlyOnNewHigh ==
    UpdateCalled
        => IF NewBalance > call.pre.peak_balance
           THEN /\ rm.peak_balance = NewBalance
                /\ rm.trailing_threshold = NewBalance - rm.max_drawdown
           ELSE /\ rm.peak_balance = call.pre.peak_balance
                /\ rm.trailing_threshold = call.pre.trailing_threshold

C15_Witness ==
    /\ UpdateCalled
    /\ call.pre.current_balance < call.pre.peak_balance
    /\ NewBalance > call.pre.peak_balance
    /\ rm.peak_balance = NewBalance

\* C16: across any sequence of RiskManager calls, peak_balance never
\* decreases from one state to the next, and neither does
\* trailing_threshold.
C16_PeakNeverDecreases ==
    [][/\ rm'.peak_balance >= rm.peak_balance
       /\ rm'.trailing_threshold >= rm.trailing_threshold]_vars

C16_Witness ==
    /\ call.op = "reset_day"
    /\ rm.peak_balance > rm.starting_balance
    /\ rm.current_balance < rm.peak_balance
    /\ rm.daily_start_balance = rm.current_balance

\* C17: in every reachable state current_balance equals starting_balance
\* plus the sum of the profit_loss values passed to update_after_trade so
\* far, and reset_day, allow_new_trade and check_real_time_risk leave
\* current_balance as it was.
C17_BalanceIsSumOfUpdates ==
    /\ rm.current_balance = rm.starting_balance + call.applied
    /\ call.op \in {"reset_day", "allow_new_trade", "check_real_time_risk"}
          => rm.current_balance = call.pre.current_balance

C17_Witness ==
    /\ CheckCalled
    /\ call.arg # 0
    /\ call.applied # 0
    /\ rm.current_balance = rm.starting_balance + call.applied

\* C18: reset_day sets daily_start_balance to the current_balance held
\* before the call and daily_realized_pl to 0 and changes no other field,
\* whether trading is enabled or disabled.
C18_ResetDayFrame ==
    call.op = "reset_day"
        => rm = [call.pre EXCEPT
                    !.daily_start_balance = call.pre.current_balance,
                    !.daily_realized_pl = 0]

C18_Witness ==
    /\ call.op = "reset_day"
    /\ rm.trading_disabled
    /\ call.pre.daily_realized_pl # 0
    /\ call.pre.daily_start_balance # call.pre.current_balance
    /\ rm.daily_start_balance = call.pre.current_balance

\* C19: called with trading enabled, check_real_time_risk(u) returns true
\* exactly when equity = current_balance + u is below trailing_threshold or
\* at or below daily_start_balance - daily_loss_limit; trading_disabled
\* after the call is the value returned and no other field changes.
C19_CheckRealTimeRisk ==
    (CheckCalled /\ ~call.pre.trading_disabled)
        => /\ call.ret <=> (\/ Equity < call.pre.trailing_threshold
                            \/ Equity <= DailyThreshold)
           /\ rm.trading_disabled = call.ret
           /\ rm = [call.pre EXCEPT !.trading_disabled = call.ret]

C19_Witness ==
    /\ CheckCalled
    /\ ~call.pre.trading_disabled
    /\ Equity < call.pre.trailing_threshold
    /\ Equity > DailyThreshold
    /\ call.ret
    /\ rm.trading_disabled

\* C20: called with trading_disabled already true, check_real_time_risk(u)
\* returns true whatever u is and changes no field of the RiskManager.
C20_CheckIdempotentWhenDisabled ==
    (CheckCalled /\ call.pre.trading_disabled)
        => /\ call.ret
           /\ rm = call.pre

C20_Witness ==
    /\ CheckCalled
    /\ call.pre.trading_disabled
    /\ Equity >= call.pre.trailing_threshold
    /\ Equity > DailyThreshold
    /\ call.ret

(***************************************************************************)
(* Error handling of the main loop.                                        *)
(***************************************************************************)
\* C21: with point_value absent calculate_pnl returns 0 and raises nothing,
\* so a pass that holds a position after its transition logic goes on to
\* call check_real_time_risk with an unrealized P&L of 0 and is not ended by
\* an exception.
C21_PnlZeroWithoutPointValue ==
    (point_value = NoPointValue /\ cyc.mid_reached /\ cyc.mid_pos # 0)
        => /\ cyc.exit # "raise"
           /\ cyc.check.called
           /\ cyc.check.u = 0

\* C22: a run whose configuration has a non-positive daily_loss_limit or
\* max_drawdown, or trading hours that do not parse, never enters the main
\* loop: no pass runs and no order is placed.
C22_InvalidConfigAborts ==
    (\/ config.daily_loss_limit <= 0
     \/ config.max_drawdown <= 0
     \/ ~config.hours_ok)
        => /\ pc \in {"startup", "aborted"}
           /\ orders = << >>
           /\ cyc = NoCycle

\* C23: a pass in which an unexpected exception was raised (by
\* recommend_position, or by a P&L computation outside an order try-block)
\* does not end the loop: the loop sleeps and goes on to the next pass.
C23_ExceptionDoesNotTerminate ==
    (cyc.branch = "stratraise" \/ cyc.exit = "raise") => pc = "sleep"

\* C24: a pass within trading hours that gets no price, whether the
\* reconnect succeeds or not, asks the strategy nothing, places no order,
\* leaves position, entry price and RiskState as they were and ends in the
\* loop's sleep, from which the next pass starts; the only order that can
\* follow is the flatten after an interrupt of that sleep.
C24_PriceFailureSkipsCycle ==
    cyc.branch \in PriceFailures
        => /\ cyc.rec = NoSignal
           /\ cyc.gate = "none"
           /\ ~cyc.check.called
           /\ cyc.updates = << >>
           /\ current_position = cyc.pre_pos
           /\ entry_price = cyc.pre_entry
           /\ cyc.rm_same
           /\ cyc.exit \in {"none", "interrupt"}
           /\ cyc.exit = "none" => (pc = "sleep" /\ orders = << >>)
           /\ \A i \in OrderIndex : orders[i].site = "exit"

C24_Witness ==
    /\ cyc.branch = "noreconnect"
    /\ current_position # 0
    /\ pc = "sleep"
    /\ orders = << >>

\* A LONG signal with the position at or below 0, or a SHORT signal with
\* the position at or above 0, whose order was filled without a breach.
EntryFilled ==
    /\ cyc.branch = "trade"
    /\ cyc.rec \in {-1, 1}
    /\ cyc.rec * cyc.pre_pos <= 0
    /\ Len(orders) >= 1
    /\ orders[1].site = "entry"
    /\ orders[1].ok
    /\ ~rm.trading_disabled

\* C25: such an order has size abs(position) + base_order_size, on the buy
\* side for LONG and the sell side for SHORT; the position recorded is
\* +base_order_size (-base_order_size) at the latest price, and the P&L of
\* a covered opposite position, and nothing else, has been passed to
\* update_after_trade.
C25_EntryOrFlip ==
    EntryFilled
        => /\ orders[1].size = Abs(cyc.pre_pos) + base_order_size
           /\ orders[1].side = (IF cyc.rec = 1 THEN "buy" ELSE "sell")
           /\ cyc.mid_reached
           /\ cyc.mid_pos = cyc.rec * base_order_size
           /\ cyc.mid_entry = cyc.price
           /\ cyc.updates =
                  (IF cyc.pre_pos = 0 THEN << >>
                   ELSE << (cyc.price - cyc.pre_entry) * cyc.pre_pos
                               * point_value >>)

C25_Witness ==
    /\ EntryFilled
    /\ cyc.rec = -1
    /\ cyc.pre_pos > 0
    /\ current_position = 0 - base_order_size
    /\ cyc.updates # << 0 >>

(***************************************************************************)
(* The daily counters.                                                     *)
(***************************************************************************)
\* C26: after every pass daily_start_balance is the balance held when the
\* calendar day of that pass began and daily_realized_pl is the P&L realized
\* since, so reset_day has run before the first order decision of a new
\* day; and reset_day is applied only in a pass whose date differs from the
\* date of the pass before it.
C26_DailyCountersFollowCalendar ==
    /\ rm.daily_start_balance = today.start_balance
    /\ rm.daily_realized_pl = today.realized
    /\ cyc.reset => cyc.newday

C26_Witness ==
    /\ cyc.reset
    /\ cyc.newday
    /\ Len(cyc.updates) = 1
    /\ cyc.updates[1] # 0
    /\ rm.daily_start_balance # rm.starting_balance
    /\ rm.daily_realized_pl = cyc.updates[1]

(***************************************************************************)
(* Properties of BasicStrategy driven directly.                            *)
(***************************************************************************)
\* The sum of the last n prices fed to the strategy.
LastSum(n) ==
    SumSeq(SubSeq(strategy.fed, Len(strategy.fed) - n + 1, Len(strategy.fed)))

StrictlyDecreasing ==
    \A i \in 1..(Len(strategy.fed) - 1) : strategy.fed[i] > strategy.fed[i + 1]

\* C27: the latest call of recommend_position returned None exactly when it
\* was one of the first long_window - 1 calls, and a value in {-1, 0, +1}
\* otherwise.
C27_NoneUntilLongWindow ==
    Len(strategy.fed) >= 1
        => IF Len(strategy.fed) < strategy.long_window
           THEN strategy.ret = NoSignal
           ELSE strategy.ret \in {-1, 0, 1}

C27_Witness ==
    /\ Len(strategy.fed) = strategy.long_window
    /\ strategy.short_window > 1
    /\ strategy.ret \in {-1, 0, 1}

\* C28: after a strictly decreasing sequence of prices longer than
\* long_window the latest call returned -1.
C28_DecreasingGivesShort ==
    (StrictlyDecreasing /\ Len(strategy.fed) > strategy.long_window)
        => strategy.ret = -1

\* C29: when the average of the last short_window prices equals the average
\* of the last long_window prices the latest call returned 0.
C29_EqualAveragesGiveZero ==
    (/\ Len(strategy.fed) >= strategy.long_window
     /\ LastSum(strategy.short_window) * strategy.long_window
            = LastSum(strategy.long_window) * strategy.short_window)
        => strategy.ret = 0

(***************************************************************************)
(* The RiskManager driven directly, continued.                             *)
(***************************************************************************)
\* C30: in every state reachable by RiskManager calls, while
\* trading_disabled is false current_balance is at or above
\* trailing_threshold and above daily_start_balance - daily_loss_limit; and
\* check_real_time_risk(0) called with trading enabled returns false and
\* leaves trading enabled.
C30_EnabledMeansWithinLimits ==
    /\ ~rm.trading_disabled
          => /\ rm.current_balance >= rm.trailing_threshold
             /\ rm.current_balance
                    > rm.daily_start_balance - rm.daily_loss_limit
    /\ (CheckCalled /\ call.arg = 0 /\ ~call.pre.trading_disabled)
          => (~call.ret /\ ~rm.trading_disabled)

C30_Witness ==
    /\ CheckCalled
    /\ call.arg = 0
    /\ ~call.ret
    /\ ~rm.trading_disabled
    /\ rm.current_balance = rm.trailing_threshold
    /\ rm.current_balance = rm.daily_start_balance - rm.daily_loss_limit + 1

\* C33: after every call of recommend_position short_sum is the sum of the
\* prices held in short_prices and long_sum the sum of the prices held in
\* long_prices, however many prices have been fed.
C33_SumsMatchDeques ==
    /\ strategy.short_sum = SumSeq(strategy.short_prices)
    /\ strategy.long_sum = SumSeq(strategy.long_prices)

\* C34: a strategy built with short_window >= long_window and adjusted by
\* main returns a value other than None once short_window + 1 prices have
\* been fed.
C34_AdjustedStrategyAnswers ==
    (/\ strategy.short_maxlen >= strategy.long_maxlen
     /\ Len(strategy.fed) >= strategy.short_window + 1)
        => strategy.ret # NoSignal

\* C32: a pass whose time of day is before the trading start or at or after
\* the trading end sends no order that opens or reverses a position: a pass
\* before the start sends nothing and leaves the position alone, a pass
\* after the end sends at most the end-of-day flatten, which closes the
\* whole position held.  When that flatten fails the position and its entry
\* price are kept and the loop goes on, so that the next pass after the end
\* sends the flatten again; when it succeeds the position is zero.  (The
\* only other order in the log of such a pass is the flatten of the finally
\* clause after an interrupt of the sleep that follows.)
C32_OutOfHoursOnlyFlattens ==
    cyc.branch \in {"before", "after"} =>
        /\ \A i \in 1..Len(orders) :
             /\ orders[i].site \in {"eod", "exit"}
             /\ orders[i].site = "exit" => cyc.exit = "interrupt"
             /\ orders[i].side = Side(cyc.pre_pos)
             /\ orders[i].size = Abs(cyc.pre_pos)
             /\ cyc.pre_pos # 0
        /\ cyc.branch = "before" =>
             /\ ~HasOrder("eod")
             /\ current_position = cyc.pre_pos
             /\ entry_price = cyc.pre_entry
        /\ (cyc.branch = "after" /\ cyc.pre_pos # 0) =>
             /\ orders # << >>
             /\ orders[1].site = "eod"
             /\ \A i \in 2..Len(orders) : orders[i].site # "eod"
             /\ ~orders[1].ok =>
                  /\ current_position = cyc.pre_pos
                  /\ entry_price = cyc.pre_entry
                  /\ pc = "sleep" \/ cyc.exit = "interrupt"
             /\ orders[1].ok => current_position = 0
        /\ (cyc.branch = "after" /\ cyc.pre_pos = 0) => orders = << >>

C32_FailedFlattenKeepsPosition ==
    /\ cyc.branch = "after"
    /\ orders # << >>
    /\ orders[1].site = "eod"
    /\ ~orders[1].ok
    /\ current_position # 0
    /\ pc = "sleep"

\* C31: when the run has terminated and no order call of the run failed,
\* the signed sum of the sizes of all the orders sent (buys positive, sells
\* negative) is zero, on every exit path, the kill switch included when a
\* predicate that can answer True is plugged in.
C31_AccountLeftFlat ==
    (pc = "done" /\ ~account.failed) => account.net = 0

====
